---- MODULE Spec2Model ----
(***************************************************************************)
(* State-machine model of BugBountyKSPAPIClient (bugbounty_ksp/api/        *)
(* client.py): construction with the eager authentication probe, the       *)
(* generic request dispatch, the classification of HTTP error statuses,    *)
(* the publish / fetch / delete / close operations, and the use of the     *)
(* client as a context manager (__enter__ / __exit__).                     *)
(*                                                                         *)
(* A caller holds at most one client.  Every action is one complete call   *)
(* of a public operation; the transport (requests.Session.request) is the  *)
(* environment and answers each dispatched request with a response         *)
(* (status, body) or with a transport exception.                           *)
(*                                                                         *)
(* The static helper APIKeyGenerator.mask_key (api/key_generator.py) is    *)
(* modelled as an operator and exercised by a specification of its own,    *)
(* KeySpec, which leaves the client untouched.                             *)
(***************************************************************************)
EXTENDS Integers, Sequences, FiniteSets, TLC

VARIABLES
    handle,      \* "absent" | "constructed" | "failed": what the caller got from the constructor
    api_key,     \* self.api_key    (None until __init__ assigns it)
    api_url,     \* self.api_url
    verify_ssl,  \* self.verify_ssl
    headers,     \* self.headers
    session,     \* self._session: "none" | "open" | "closed"
    probe,       \* the transport's answer to the authentication probe of this client
    result,      \* the outcome of the last call: [op, args, raised, exc, value]
    dispatch,    \* the outcome of the last call's _request invocation, if it made one
    wire,        \* the exchanges with the transport made by the last call
    scope,       \* "outside" | "inside": whether the caller is in a `with client:` block
    closes,      \* the number of close() calls made on this client so far
    util         \* the last calls of the key helper (APIKeyGenerator): [fn, args, out]

vars == <<handle, api_key, api_url, verify_ssl, headers, session, probe, result, dispatch, wire,
          scope, closes, util>>

(***************************************************************************)
(* Bounds of the model.                                                    *)
(***************************************************************************)
MaxImages == 2
MaxCloses == 2
MaxVisible == 4

(***************************************************************************)
(* Program constants.                                                      *)
(***************************************************************************)
REQUEST_TIMEOUT == 30
MAX_RETRIES == 3
VERIFY_TIMEOUT == 5
DEFAULT_API_URL == "https://api.bugbounty-ksp.com"

(***************************************************************************)
(* Python values.  None / optional values are sequences of length 0 or 1.  *)
(***************************************************************************)
None == <<>>
Some(x) == <<x>>

PyStr(s) == [type |-> "str", s |-> s, items |-> <<>>]
PyBytes(s) == [type |-> "bytes", s |-> s, items |-> <<>>]
PyInt(s) == [type |-> "int", s |-> s, items |-> <<>>]
PyNone == [type |-> "NoneType", s |-> "", items |-> <<>>]
PyList(xs) == [type |-> "list", s |-> "", items |-> xs]
PyDict(kvs) == [type |-> "dict", s |-> "", items |-> kvs]

\* bool(v) as Python computes it
Truthy(v) ==
    CASE v.type = "str" -> v.s # ""
      [] v.type = "bytes" -> v.s # ""
      [] v.type = "int" -> v.s # "0"
      [] v.type = "NoneType" -> FALSE
      [] OTHER -> v.items # <<>>

\* s.startswith(p)
StartsWith(s, p) == Len(s) >= Len(p) /\ SubSeq(s, 1, Len(p)) = p

\* s.rstrip("/")
RECURSIVE RStripSlash(_)
RStripSlash(s) ==
    IF s # "" /\ SubSeq(s, Len(s), Len(s)) = "/"
    THEN RStripSlash(SubSeq(s, 1, Len(s) - 1))
    ELSE s

\* json.dumps of a flat dict of strings, in insertion order
RECURSIVE DumpItems(_)
DumpItems(kvs) ==
    IF kvs = <<>> THEN ""
    ELSE "\"" \o kvs[1][1] \o "\": \"" \o kvs[1][2] \o "\""
         \o (IF Len(kvs) > 1 THEN ", " ELSE "") \o DumpItems(Tail(kvs))

JsonDumps(d) == "{" \o DumpItems(d.items) \o "}"

(***************************************************************************)
(* Exceptions (api/exceptions.py).  Every kind of the API hierarchy        *)
(* shares APIError's constructor.                                          *)
(***************************************************************************)
APIErrorKinds ==
    {"APIError", "AuthenticationError", "ValidationError",
     "RateLimitError", "NotFoundError", "NetworkError"}

APIError(kind, message, status_code, response) ==
    [kind |-> kind, message |-> message, status_code |-> status_code, response |-> response]

\* An exception raised by the interpreter or a library, outside the API hierarchy
Builtin(kind, message) ==
    [kind |-> kind, message |-> message, status_code |-> None, response |-> None]

\* The requests exception classes and their subclass relation
TransportExceptions ==
    {"Timeout", "ConnectTimeout", "ReadTimeout", "ConnectionError", "SSLError",
     "RequestException", "InvalidURL"}

IsTimeout(e) == e \in {"Timeout", "ConnectTimeout", "ReadTimeout"}
IsConnectionError(e) == e \in {"ConnectionError", "ConnectTimeout", "SSLError"}
IsRequestException(e) == e \in TransportExceptions \cup {"JSONDecodeError"}

(***************************************************************************)
(* The transport's answers.  A response body is its raw text together      *)
(* with what response.json() decodes it to ("invalid": json() raises).     *)
(***************************************************************************)
EmptyMap == [k \in {} |-> ""]

JObj(f) == [t |-> "object", v |-> f, s |-> ""]
JArr == [t |-> "array", v |-> EmptyMap, s |-> ""]
JStr(str) == [t |-> "string", v |-> EmptyMap, s |-> str]
JNull == [t |-> "null", v |-> EmptyMap, s |-> ""]
JInvalid == [t |-> "invalid", v |-> EmptyMap, s |-> ""]

ErrorBodies ==
    { [text |-> "{\"error\": \"slow down\", \"retry_after\": \"60\"}",
       json |-> JObj([error |-> "slow down", retry_after |-> "60"])],
      [text |-> "{\"detail\": \"boom\"}", json |-> JObj([detail |-> "boom"])],
      [text |-> "<html>Bad Gateway</html>", json |-> JInvalid],
      [text |-> "[\"boom\"]", json |-> JArr],
      [text |-> "\"boom\"", json |-> JStr("boom")] }

PublishBodies ==
    { [text |-> "{\"article_id\": \"art_1\", \"published_id\": \"pub_1\", \"web_url\": \"https://x/pub_1\", \"created_at\": \"2024-01-01T00:00:00Z\"}",
       json |-> JObj([article_id |-> "art_1", published_id |-> "pub_1",
                      web_url |-> "https://x/pub_1", created_at |-> "2024-01-01T00:00:00Z"])],
      [text |-> "{\"article_id\": \"art_1\", \"published_id\": \"pub_1\", \"web_url\": \"https://x/pub_1\", \"images\": {\"a.png\": \"https://cdn/a.png\"}, \"created_at\": \"2024-01-01T00:00:00Z\"}",
       json |-> JObj([article_id |-> "art_1", published_id |-> "pub_1",
                      web_url |-> "https://x/pub_1", images |-> [k \in {"a.png"} |-> "https://cdn/a.png"],
                      created_at |-> "2024-01-01T00:00:00Z"])],
      [text |-> "{\"article_id\": \"art_1\", \"published_id\": \"pub_1\", \"web_url\": \"https://x/pub_1\"}",
       json |-> JObj([article_id |-> "art_1", published_id |-> "pub_1", web_url |-> "https://x/pub_1"])] }

DeleteBodies ==
    { [text |-> "{\"article_id\": \"art_1\", \"published_id\": \"pub_1\", \"deleted_at\": \"2024-01-02T00:00:00Z\"}",
       json |-> JObj([article_id |-> "art_1", published_id |-> "pub_1",
                      deleted_at |-> "2024-01-02T00:00:00Z"])],
      [text |-> "{\"article_id\": \"art_1\", \"published_id\": \"pub_1\", \"deleted_at\": \"2024-01-02T00:00:00Z\", \"archived\": false}",
       json |-> JObj([article_id |-> "art_1", published_id |-> "pub_1",
                      deleted_at |-> "2024-01-02T00:00:00Z", archived |-> FALSE])] }

OtherBodies ==
    { [text |-> "", json |-> JInvalid],
      [text |-> "[]", json |-> JArr] }

ErrorStatuses == {400, 401, 403, 404, 422, 429, 500}

Response(c, b) == [kind |-> "response", status_code |-> c, text |-> b.text, json |-> b.json]

\* Every error status with every shape of body; 200 with every payload; the other
\* statuses below 400 with an empty body
Responses ==
    { Response(c, b) : c \in ErrorStatuses, b \in ErrorBodies }
    \cup { Response(200, b) : b \in PublishBodies \cup DeleteBodies \cup OtherBodies }
    \cup { Response(c, [text |-> "", json |-> JInvalid]) : c \in {204, 302, 399} }

Failures ==
    { [kind |-> "exception", class |-> c, message |-> "transport down"]
        : c \in {"Timeout", "ConnectTimeout", "ConnectionError", "RequestException"} }

Replies == Responses \cup Failures

IsResponse(reply) == reply.kind = "response"

(***************************************************************************)
(* _handle_response_errors: None when it returns, else the exception it    *)
(* raises.                                                                 *)
(***************************************************************************)
\* type(x).__name__ of what response.json() returned
PyTypeName(j) ==
    CASE j.t = "object" -> "dict"
      [] j.t = "array" -> "list"
      [] j.t = "string" -> "str"
      [] OTHER -> "NoneType"

\* The part after the early return: the exception raised for a status >= 400
ClassifyError(response) ==
      LET error_data ==
              IF response.json.t = "invalid"
              THEN JObj([error |-> response.text])
              ELSE response.json
          code == response.status_code
      IN  IF error_data.t # "object"
          THEN Some(Builtin("AttributeError",
                            "'" \o PyTypeName(error_data) \o "' object has no attribute 'get'"))
          ELSE
            LET error_message ==
                    IF "error" \in DOMAIN error_data.v
                    THEN error_data.v["error"]
                    ELSE "HTTP " \o ToString(code)
            IN  CASE code = 401 ->
                       Some(APIError("AuthenticationError",
                                     "Unauthorized: " \o error_message \o ". Check your API key.",
                                     Some(401), Some(error_data)))
                  [] code = 403 ->
                       Some(APIError("AuthenticationError",
                                     "Forbidden: " \o error_message \o ". Check your permissions.",
                                     Some(403), Some(error_data)))
                  [] code = 404 ->
                       Some(APIError("NotFoundError", "Not found: " \o error_message,
                                     Some(404), Some(error_data)))
                  [] code \in {400, 422} ->
                       Some(APIError("ValidationError", "Validation error: " \o error_message,
                                     Some(code), Some(error_data)))
                  [] code = 429 ->
                       Some(APIError("RateLimitError",
                                     "Rate limit exceeded. Please try again later.",
                                     Some(429), Some(error_data)))
                  [] OTHER ->
                       Some(APIError("APIError", "API error: " \o error_message,
                                     Some(code), Some(error_data)))

\* A variant whose early return also takes status 400 for a success
HandleResponseErrorsAbove400(response) ==
    IF response.status_code <= 400 THEN None ELSE ClassifyError(response)

HandleResponseErrors(response) ==
    IF response.status_code < 400 THEN None ELSE ClassifyError(response)

(***************************************************************************)
(* _request: one call of the generic dispatch.  `reply` is what the        *)
(* transport answers to the request.  The result holds the exchanges made  *)
(* with the transport, and either the response returned to the caller or   *)
(* the exception raised.                                                   *)
(***************************************************************************)
Returned(sent, response) ==
    [wire |-> sent, raised |-> FALSE, exc |-> None, response |-> Some(response)]

Raised(sent, e) ==
    [wire |-> sent, raised |-> TRUE, exc |-> Some(e), response |-> None]

\* A variant that also hands the form fields as a JSON body next to the parts
TransportRequestBoth(self, method, endpoint, data, files, timeout) ==
    [method |-> method, url |-> self.api_url \o endpoint, json |-> data,
     data |-> IF files # None /\ DOMAIN files[1] # {} THEN data ELSE None,
     files |-> IF files # None /\ DOMAIN files[1] # {} THEN files ELSE None,
     timeout |-> timeout, verify |-> self.verify_ssl,
     headers |-> self.headers]

\* The keyword arguments _request hands to self._session.request.  The branch
\* is on the truth value of files: None and an empty dict both send JSON.
TransportRequest(self, method, endpoint, data, files, timeout) ==
    LET url == self.api_url \o endpoint
    IN  IF files # None /\ DOMAIN files[1] # {}
        THEN [method |-> method, url |-> url, json |-> None, data |-> data,
              files |-> files, timeout |-> timeout, verify |-> self.verify_ssl,
              headers |-> self.headers]
        ELSE [method |-> method, url |-> url, json |-> data, data |-> None,
              files |-> None, timeout |-> timeout, verify |-> self.verify_ssl,
              headers |-> self.headers]

\* A variant without the catch-all clause for requests.RequestException
RequestExceptNarrow(e, timeout) ==
    IF IsTimeout(e.kind)
    THEN APIError("NetworkError", "Request timeout after " \o ToString(timeout) \o "s", None, None)
    ELSE IF IsConnectionError(e.kind)
    THEN APIError("NetworkError", "Connection failed: " \o e.message, None, None)
    ELSE e

\* The except clauses of _request, applied to an exception raised in its try block
RequestExcept(e, timeout) ==
    IF IsTimeout(e.kind)
    THEN APIError("NetworkError", "Request timeout after " \o ToString(timeout) \o "s", None, None)
    ELSE IF IsConnectionError(e.kind)
    THEN APIError("NetworkError", "Connection failed: " \o e.message, None, None)
    ELSE IF IsRequestException(e.kind)
    THEN APIError("NetworkError", "Request failed: " \o e.message, None, None)
    ELSE e

\* A variant that re-sends after a transport failure, up to MAX_RETRIES attempts
RequestWithRetries(self, method, endpoint, data, files, timeout, reply) ==
    LET req == TransportRequest(self, method, endpoint, data, files, timeout)
        sent == <<[request |-> req, reply |-> reply]>>
        again == [i \in 1..MAX_RETRIES |-> [request |-> req, reply |-> reply]]
    IN  IF IsResponse(reply)
        THEN LET err == HandleResponseErrors(reply)
             IN  IF err = None THEN Returned(sent, reply)
                 ELSE Raised(sent, RequestExcept(err[1], timeout))
        ELSE Raised(again, RequestExcept(Builtin(reply.class, reply.message), timeout))

Request(self, method, endpoint, data, files, timeout, reply) ==
    LET req == TransportRequest(self, method, endpoint, data, files, timeout)
        sent == <<[request |-> req, reply |-> reply]>>
    IN  IF IsResponse(reply)
        THEN LET err == HandleResponseErrors(reply)
             IN  IF err = None THEN Returned(sent, reply)
                 ELSE Raised(sent, RequestExcept(err[1], timeout))
        ELSE Raised(sent, RequestExcept(Builtin(reply.class, reply.message), timeout))

(***************************************************************************)
(* _verify_authentication: the probe.  The result is that of its _request  *)
(* call, with the exception the probe itself raises, if any.               *)
(***************************************************************************)
\* A variant that takes every response _request returns for a valid credential
VerifyAuthenticationAnyReturned(self, reply) ==
    LET r == Request(self, "GET", "/api/auth/verify", None, None, VERIFY_TIMEOUT, reply)
    IN  IF r.raised
        THEN [call |-> r, raised |-> TRUE, exc |-> r.exc]
        ELSE [call |-> r, raised |-> FALSE, exc |-> None]

VerifyAuthentication(self, reply) ==
    LET r == Request(self, "GET", "/api/auth/verify", None, None, VERIFY_TIMEOUT, reply)
        unauth == APIError("AuthenticationError",
                      "Invalid API key. Verify at: https://bugbounty-ksp.com/settings/api-keys",
                      None, None)
    IN  IF r.raised
        THEN IF IsRequestException(r.exc[1].kind)
             THEN [call |-> r, raised |-> TRUE,
                   exc |-> Some(APIError("NetworkError",
                              "Failed to verify authentication: " \o r.exc[1].message, None, None))]
             ELSE [call |-> r, raised |-> TRUE, exc |-> r.exc]
        ELSE IF r.response[1].status_code # 200
             THEN [call |-> r, raised |-> TRUE, exc |-> Some(unauth)]
             ELSE [call |-> r, raised |-> FALSE, exc |-> None]

(***************************************************************************)
(* __init__: the format checks on the credential, then the fields.         *)
(***************************************************************************)
\* A variant without the check of the sk_ prefix
ValidateApiKeyNoPrefix(key) ==
    IF ~Truthy(key) \/ key.type # "str"
    THEN Some(APIError("ValidationError", "API key must be a non-empty string", None, None))
    ELSE None

\* None when the credential passes, else the ValidationError raised
ValidateApiKey(key) ==
    IF ~Truthy(key) \/ key.type # "str"
    THEN Some(APIError("ValidationError", "API key must be a non-empty string", None, None))
    ELSE IF ~StartsWith(key.s, "sk_")
    THEN Some(APIError("ValidationError", "Invalid API key format. Must start with 'sk_'", None, None))
    ELSE None

SessionHeaders(key) ==
    [Authorization |-> "Bearer " \o key, UserAgent |-> "BugBountyKSP-SDK/1.0",
     Accept |-> "application/json"]

\* The fields of the client as the request path reads them
Self == [api_url |-> api_url[1], verify_ssl |-> verify_ssl[1], headers |-> headers[1]]

(***************************************************************************)
(* Decoding a success payload: result[key] on what response.json() gave.   *)
(* Messages are str(e) under CPython 3.11 and later; CPython 3.9 and 3.10   *)
(* word the str case "string indices must be integers".                    *)
(***************************************************************************)
SubscriptError(j, key) ==
    CASE j.t = "object" ->
           IF key \in DOMAIN j.v THEN None ELSE Some(Builtin("KeyError", "'" \o key \o "'"))
      [] j.t = "array" ->
           Some(Builtin("TypeError", "list indices must be integers or slices, not str"))
      [] j.t = "string" ->
           Some(Builtin("TypeError", "string indices must be integers, not 'str'"))
      [] OTHER ->
           Some(Builtin("TypeError", "'NoneType' object is not subscriptable"))

\* The first exception met when subscripting with the keys in order
RECURSIVE FirstSubscriptError(_, _)
FirstSubscriptError(j, keys) ==
    IF keys = <<>> THEN None
    ELSE IF SubscriptError(j, keys[1]) # None THEN SubscriptError(j, keys[1])
    ELSE FirstSubscriptError(j, Tail(keys))

\* A variant that reports a payload it cannot decode as a generic API error
DecodeErrorWrapped(response, keys) ==
    IF response.json.t = "invalid" \/ FirstSubscriptError(response.json, keys) # None
    THEN Some(APIError("APIError", "Invalid response from server", None, None))
    ELSE None

\* response.json() on a returned response, then the keyword arguments in order.
\* The message is str(e) for a body whose first character starts no JSON value.
DecodeError(response, keys) ==
    IF response.json.t = "invalid"
    THEN Some(Builtin("JSONDecodeError", "Expecting value: line 1 column 1 (char 0)"))
    ELSE FirstSubscriptError(response.json, keys)

Outcome(call, exc, value) ==
    [call |-> call, raised |-> exc # None, exc |-> exc, value |-> value]

(***************************************************************************)
(* publish_article                                                         *)
(***************************************************************************)
\* A variant without the check of the frontmatter's type
ValidatePublishNoFrontmatter(title, content, frontmatter) ==
    IF ~Truthy(title) \/ ~Truthy(content)
    THEN Some(APIError("ValidationError", "Title and content are required", None, None))
    ELSE None

\* None when the inputs pass, else the ValidationError raised
ValidatePublish(title, content, frontmatter) ==
    IF ~Truthy(title) \/ ~Truthy(content)
    THEN Some(APIError("ValidationError", "Title and content are required", None, None))
    ELSE IF frontmatter.type # "dict"
    THEN Some(APIError("ValidationError", "Frontmatter must be a dictionary", None, None))
    ELSE None

\* A variant that names every part alike
PartNameArray(filename) == "images[]"

PartName(filename) == "images[" \o filename \o "]"

\* files: one entry per image, keyed by the part name
BuildFiles(images) ==
    [n \in {PartName(f) : f \in DOMAIN images.map} |->
        LET f == CHOOSE g \in DOMAIN images.map : PartName(g) = n
        IN  <<f, images.map[f]>>]

\* A variant that drops the hosted image URLs of the response
PublishResponseNoImages(res) ==
    [success |-> TRUE,
     article_id |-> res["article_id"],
     published_id |-> res["published_id"],
     web_url |-> res["web_url"],
     images |-> EmptyMap,
     created_at |-> res["created_at"]]

\* PublishResponse(...) built from the decoded body, a dict holding the required keys
PublishResponse(res) ==
    [success |-> TRUE,
     article_id |-> res["article_id"],
     published_id |-> res["published_id"],
     web_url |-> res["web_url"],
     images |-> IF "images" \in DOMAIN res THEN res["images"] ELSE EmptyMap,
     created_at |-> res["created_at"]]

PublishArticle(self, title, content, frontmatter, images, file_path, reply) ==
    LET invalid == ValidatePublish(title, content, frontmatter)
        data == [title |-> title.s, content |-> content.s,
                 frontmatter |-> JsonDumps(frontmatter), file_path |-> file_path]
        files == BuildFiles(images)
        r == Request(self, "POST", "/api/articles/publish", Some(data),
                     IF DOMAIN files # {} THEN Some(files) ELSE None,
                     REQUEST_TIMEOUT, reply)
        keys == <<"article_id", "published_id", "web_url", "created_at">>
    IN  IF invalid # None THEN Outcome(None, invalid, None)
        ELSE IF r.raised THEN Outcome(Some(r), r.exc, None)
        ELSE IF DecodeError(r.response[1], keys) # None
        THEN Outcome(Some(r), DecodeError(r.response[1], keys), None)
        ELSE Outcome(Some(r), None, Some(PublishResponse(r.response[1].json.v)))

(***************************************************************************)
(* get_article, delete_article                                             *)
(***************************************************************************)
GetArticle(self, published_id, reply) ==
    LET r == Request(self, "GET", "/api/articles/" \o published_id, None, None,
                     REQUEST_TIMEOUT, reply)
    IN  IF r.raised THEN Outcome(Some(r), r.exc, None)
        ELSE IF DecodeError(r.response[1], <<>>) # None
        THEN Outcome(Some(r), DecodeError(r.response[1], <<>>), None)
        ELSE Outcome(Some(r), None, Some(r.response[1].json))

\* A variant that reports every delete as a soft delete
DeleteResponseAlwaysArchived(res) ==
    [success |-> TRUE,
     article_id |-> res["article_id"],
     published_id |-> res["published_id"],
     deleted_at |-> res["deleted_at"],
     archived |-> TRUE]

\* DeleteResponse(...) built from the decoded body, a dict holding the required keys
DeleteResponse(res) ==
    [success |-> TRUE,
     article_id |-> res["article_id"],
     published_id |-> res["published_id"],
     deleted_at |-> res["deleted_at"],
     archived |-> IF "archived" \in DOMAIN res THEN res["archived"] ELSE TRUE]

DeleteArticle(self, published_id, reply) ==
    LET r == Request(self, "DELETE", "/api/articles/" \o published_id, None, None,
                     REQUEST_TIMEOUT, reply)
        keys == <<"article_id", "published_id", "deleted_at">>
    IN  IF r.raised THEN Outcome(Some(r), r.exc, None)
        ELSE IF DecodeError(r.response[1], keys) # None
        THEN Outcome(Some(r), DecodeError(r.response[1], keys), None)
        ELSE Outcome(Some(r), None, Some(DeleteResponse(r.response[1].json.v)))

(***************************************************************************)
(* close, __enter__, __exit__.  self._session is a requests.Session, which *)
(* is truthy open or closed, and whose close() can be called again.        *)
(***************************************************************************)
\* A variant whose second close() fails on the released session
CloseClientOnce(s) ==
    IF s = "closed"
    THEN [session |-> s, exc |-> Some(Builtin("RuntimeError", "Session is closed"))]
    ELSE [session |-> IF s # "none" THEN "closed" ELSE s, exc |-> None]

\* A variant that drops the session reference when it releases the session
CloseClientDropsSession(s) == [session |-> "none", exc |-> None]

\* close(): the session it leaves, and the exception it raises, if any
CloseClient(s) ==
    [session |-> IF s # "none" THEN "closed" ELSE s, exc |-> None]

\* A variant that releases the session on a normal exit only
ClientExitNormalOnly(s, exc) ==
    IF exc # None
    THEN [session |-> s, closes |-> 0, exc |-> None, returns |-> PyNone]
    ELSE [session |-> CloseClient(s).session, closes |-> 1, exc |-> CloseClient(s).exc,
          returns |-> PyNone]

\* A variant whose __exit__ returns True, which makes the with statement swallow
\* the exception in flight
ClientExitSuppresses(s, exc) ==
    [session |-> CloseClient(s).session, closes |-> 1, exc |-> CloseClient(s).exc,
     returns |-> PyInt("1")]

\* __exit__(exc_type, exc_val, exc_tb): calls self.close() and returns None
ClientExit(s, exc) ==
    [session |-> CloseClient(s).session, closes |-> 1, exc |-> CloseClient(s).exc,
     returns |-> PyNone]

(***************************************************************************)
(* APIKeyGenerator (api/key_generator.py): mask_key.                       *)
(***************************************************************************)
PREFIX == "sk_"

\* "*" * n, the empty string for n <= 0
RECURSIVE Stars(_)
Stars(n) == IF n <= 0 THEN "" ELSE "*" \o Stars(n - 1)

\* key[-n:] for n >= 0: key[-0:] is key[0:], the whole string
SliceFromEnd(key, n) ==
    IF n = 0 \/ n >= Len(key) THEN key
    ELSE SubSeq(key, Len(key) - n + 1, Len(key))

MaskKey(key, visible_chars) ==
    IF key = "" THEN ""
    ELSE IF Len(key) <= visible_chars THEN Stars(Len(key))
    ELSE IF Len(key) <= Len(PREFIX) + visible_chars THEN key
    ELSE LET visible_end == SliceFromEnd(key, visible_chars)
             hidden_len == Len(key) - Len(PREFIX) - visible_chars
         IN  PREFIX \o Stars(hidden_len) \o visible_end

(***************************************************************************)
(* APIKeyGenerator: generate, is_valid_format, get_key_info.               *)
(***************************************************************************)
TEST_PREFIX == "sk_test_"
KEY_LENGTH == 32
MIN_RANDOM_LENGTH == 8
CHARSET == "abcdefghijklmnopqrstuvwxyzABCDEFGHIJKLMNOPQRSTUVWXYZ0123456789"

\* generate(test), with random_part the KEY_LENGTH characters secrets.choice drew
Generate(test, random_part) == (IF test THEN TEST_PREFIX ELSE PREFIX) \o random_part

\* c.isalnum() for a character of an ASCII string
IsAlnum(c) == \E i \in 1..Len(CHARSET) : SubSeq(CHARSET, i, i) = c

AllAlnum(str) == \A i \in 1..Len(str) : IsAlnum(SubSeq(str, i, i))

\* A variant that lets the underscore pass the character check
IsValidFormatUnderscore(key) ==
    IF key.type # "str" THEN FALSE
    ELSE IF key.s = "" THEN FALSE
    ELSE IF ~StartsWith(key.s, PREFIX) THEN FALSE
    ELSE IF Len(key.s) < Len(PREFIX) + MIN_RANDOM_LENGTH THEN FALSE
    ELSE \A i \in (Len(PREFIX) + 1)..Len(key.s) :
            IsAlnum(SubSeq(key.s, i, i)) \/ SubSeq(key.s, i, i) = "_"

IsValidFormat(key) ==
    IF key.type # "str" THEN FALSE
    ELSE IF key.s = "" THEN FALSE
    ELSE IF ~StartsWith(key.s, PREFIX) THEN FALSE
    ELSE IF Len(key.s) < Len(PREFIX) + MIN_RANDOM_LENGTH THEN FALSE
    ELSE AllAlnum(SubSeq(key.s, Len(PREFIX) + 1, Len(key.s)))

\* get_key_info(key) for a string, with now what datetime.now().isoformat() gave;
\* environment is None when the dict has no such entry
GetKeyInfo(key, now) ==
    LET is_valid == IsValidFormat(PyStr(key))
    IN  [is_valid |-> is_valid,
         length |-> Len(key),
         masked |-> MaskKey(key, 4),
         created_at |-> now,
         prefix |-> IF is_valid THEN Some(PREFIX) ELSE None,
         type |-> IF is_valid THEN "secret_key" ELSE "invalid",
         environment |-> IF ~is_valid THEN None
                         ELSE IF StartsWith(key, TEST_PREFIX) THEN Some("test")
                         ELSE Some("production")]

(***************************************************************************)
(* The inputs a caller passes.                                             *)
(***************************************************************************)
InvalidApiKeys ==
    { PyStr(""), PyNone, PyInt("0"), PyInt("123"), PyBytes("sk_live"),
      PyStr("sk"), PyStr("pk_live"), PyStr(" sk_live"), PyStr("SK_live") }

ConstructArgs ==
    { [key |-> k, url |-> DEFAULT_API_URL, verify |-> TRUE] : k \in InvalidApiKeys }
    \cup { [key |-> PyStr("sk_live"), url |-> DEFAULT_API_URL, verify |-> TRUE],
           [key |-> PyStr("sk_live"), url |-> DEFAULT_API_URL \o "//", verify |-> TRUE],
           [key |-> PyStr("sk_"), url |-> DEFAULT_API_URL \o "/", verify |-> FALSE] }

Filenames == { "img" \o ToString(i) \o ".png" : i \in 1..MaxImages }

Images(S) == [type |-> "dict", map |-> [f \in S |-> "bytes of " \o f]]
NoImages == [type |-> "NoneType", map |-> EmptyMap]

Frontmatter == PyDict(<<<<"title", "T">>, <<"category", "web">>>>)
FilePath == "/path/to/article.md"

PublishArgs ==
    { [title |-> PyStr(t), content |-> PyStr(c), frontmatter |-> PyDict(<<>>),
       images |-> Images({}), file_path |-> FilePath] : t \in {"", "T"}, c \in {"", "# C"} }
    \cup { [title |-> PyStr("T"), content |-> PyStr("# C"), frontmatter |-> f,
            images |-> Images({}), file_path |-> FilePath]
             : f \in {PyStr("not_a_dict"), PyNone} }
    \cup { [title |-> PyStr(""), content |-> PyStr("# C"), frontmatter |-> PyStr("not_a_dict"),
            images |-> Images(Filenames), file_path |-> FilePath] }
    \cup { [title |-> PyStr("T"), content |-> PyStr("# C"), frontmatter |-> Frontmatter,
            images |-> i, file_path |-> FilePath]
             : i \in {NoImages} \cup { Images(S) : S \in SUBSET Filenames } }

PublishedIds == { "pub_1" }

(***************************************************************************)
(* The state machine.                                                      *)
(***************************************************************************)
NoResult == [op |-> "none", args |-> <<>>, raised |-> FALSE, exc |-> None, value |-> None]

Init ==
    /\ handle = "absent"
    /\ api_key = None
    /\ api_url = None
    /\ verify_ssl = None
    /\ headers = None
    /\ session = "none"
    /\ probe = None
    /\ result = NoResult
    /\ dispatch = None
    /\ wire = <<>>
    /\ scope = "outside"
    /\ closes = 0
    /\ util = <<>>

\* What a call leaves of its _request invocation
DispatchOf(call) ==
    IF call = None THEN None
    ELSE Some([raised |-> call[1].raised, exc |-> call[1].exc, response |-> call[1].response])

WireOf(call) == IF call = None THEN <<>> ELSE call[1].wire

\* What is kept of the probe's exchange: the status answered, or the exception class
ProbeOf(reply) ==
    IF IsResponse(reply)
    THEN [kind |-> "response", status_code |-> reply.status_code, class |-> ""]
    ELSE [kind |-> "exception", status_code |-> 0, class |-> reply.class]

\* A variant that releases the session when the probe fails
ProbedSessionReleased(v) ==
    IF v.raised THEN [session |-> CloseClient("open").session, closes |-> 1]
    ELSE [session |-> "open", closes |-> 0]

\* The session __init__ created, and the close() calls made, when the probe has
\* returned or raised: __init__ has no handler around the probe
ProbedSession(v) == [session |-> "open", closes |-> 0]

\* client = BugBountyKSPAPIClient(key, url, verify), by a caller that holds no client
Construct(key, url, verify, reply) ==
    LET invalid == ValidateApiKey(key)
        self == [api_url |-> RStripSlash(url), verify_ssl |-> verify,
                 headers |-> SessionHeaders(key.s)]
        v == VerifyAuthentication(self, reply)
    IN  /\ handle # "constructed"
        /\ UNCHANGED <<scope, util>>
        /\ IF invalid # None
           THEN /\ handle' = "failed"
                /\ api_key' = None
                /\ api_url' = None
                /\ verify_ssl' = None
                /\ headers' = None
                /\ session' = "none"
                /\ closes' = 0
                /\ probe' = None
                /\ result' = [op |-> "construct", args |-> <<key, url, verify>>,
                              raised |-> TRUE, exc |-> invalid, value |-> None]
                /\ dispatch' = None
                /\ wire' = <<>>
           ELSE /\ handle' = IF v.raised THEN "failed" ELSE "constructed"
                /\ api_key' = Some(key.s)
                /\ api_url' = Some(self.api_url)
                /\ verify_ssl' = Some(verify)
                /\ headers' = Some(self.headers)
                /\ session' = ProbedSession(v).session
                /\ closes' = ProbedSession(v).closes
                /\ probe' = Some(ProbeOf(reply))
                /\ result' = [op |-> "construct", args |-> <<key, url, verify>>,
                              raised |-> v.raised, exc |-> v.exc, value |-> None]
                /\ dispatch' = DispatchOf(Some(v.call))
                /\ wire' = v.call.wire

\* The effect of a call of publish, fetch or delete on the state
Called(op, args, out) ==
    /\ result' = [op |-> op, args |-> args, raised |-> out.raised,
                  exc |-> out.exc, value |-> out.value]
    /\ dispatch' = DispatchOf(out.call)
    /\ wire' = WireOf(out.call)
    /\ UNCHANGED <<handle, api_key, api_url, verify_ssl, headers, session, probe,
                   scope, closes, util>>

Publish(title, content, frontmatter, images, file_path, reply) ==
    /\ handle = "constructed"
    /\ Called("publish", <<title, content, frontmatter, images, file_path>>,
              PublishArticle(Self, title, content, frontmatter, images, file_path, reply))

Get(published_id, reply) ==
    /\ handle = "constructed"
    /\ Called("get", <<published_id>>, GetArticle(Self, published_id, reply))

Delete(published_id, reply) ==
    /\ handle = "constructed"
    /\ Called("delete", <<published_id>>, DeleteArticle(Self, published_id, reply))

\* client.close()
Close ==
    LET c == CloseClient(session)
    IN  /\ handle = "constructed"
        /\ closes < MaxCloses
        /\ session' = c.session
        /\ closes' = closes + 1
        /\ result' = [op |-> "close", args |-> <<>>, raised |-> c.exc # None, exc |-> c.exc,
                      value |-> None]
        /\ dispatch' = None
        /\ wire' = <<>>
        /\ UNCHANGED <<handle, api_key, api_url, verify_ssl, headers, probe, scope, util>>

\* `with client:` is entered: __enter__ returns the client itself
Enter ==
    /\ handle = "constructed"
    /\ scope = "outside"
    /\ scope' = "inside"
    /\ result' = [op |-> "enter", args |-> <<>>, raised |-> FALSE, exc |-> None,
                  value |-> Some("self")]
    /\ dispatch' = None
    /\ wire' = <<>>
    /\ UNCHANGED <<handle, api_key, api_url, verify_ssl, headers, session, probe, closes, util>>

\* The exceptions that can leave the block: none, the one the last call in the
\* block raised, or one raised by the caller's own code
BlockExits ==
    {None, Some(Builtin("ValueError", "raised in the block"))}
    \cup (IF result.raised /\ result.op \in {"publish", "get", "delete"} THEN {result.exc} ELSE {})

\* The block is left with `exc` in flight (None: normally): __exit__(exc) runs, and
\* the with statement re-raises exc unless __exit__ returned a true value
Exit(exc) ==
    LET x == ClientExit(session, exc)
        raises == IF x.exc # None THEN x.exc
                  ELSE IF exc # None /\ ~Truthy(x.returns) THEN exc
                  ELSE None
    IN  /\ handle = "constructed"
        /\ scope = "inside"
        /\ closes + x.closes <= MaxCloses
        /\ scope' = "outside"
        /\ session' = x.session
        /\ closes' = closes + x.closes
        /\ result' = [op |-> "exit", args |-> <<exc>>, raised |-> raises # None, exc |-> raises,
                      value |-> None]
        /\ dispatch' = None
        /\ wire' = <<>>
        /\ UNCHANGED <<handle, api_key, api_url, verify_ssl, headers, probe, util>>

Next ==
    \/ \E a \in ConstructArgs, reply \in Replies :
          Construct(a.key, a.url, a.verify, reply)
    \/ \E a \in PublishArgs, reply \in Replies :
          Publish(a.title, a.content, a.frontmatter, a.images, a.file_path, reply)
    \/ \E published_id \in PublishedIds, reply \in Replies : Get(published_id, reply)
    \/ \E published_id \in PublishedIds, reply \in Replies : Delete(published_id, reply)
    \/ Close
    \/ Enter
    \/ \E exc \in BlockExits : Exit(exc)

Spec == Init /\ [][Next]_vars

(***************************************************************************)
(* The key helper on its own: calls of the static methods of               *)
(* APIKeyGenerator, which touch no client.  util keeps the last two calls. *)
(***************************************************************************)
MaskKeys ==
    {"", "b", "ab", "Xb", "abcdef", "Xbcdef", "sk_abcdefgh", "sk_Xbcdefgh", "pk_abcdefgh"}

VisibleChars == 0..MaxVisible

LastTwo(calls) == IF Len(calls) <= 2 THEN calls ELSE Tail(calls)

\* APIKeyGenerator.mask_key(key, visible_chars)
MaskKeyCall(key, visible_chars) ==
    /\ util' = LastTwo(Append(util, [fn |-> "mask_key", args |-> <<key, visible_chars>>,
                                     out |-> MaskKey(key, visible_chars)]))
    /\ UNCHANGED <<handle, api_key, api_url, verify_ssl, headers, session, probe, result,
                   dispatch, wire, scope, closes>>

RECURSIVE Repeat(_, _)
Repeat(c, n) == IF n <= 0 THEN "" ELSE c \o Repeat(c, n - 1)

\* Some of the strings of KEY_LENGTH characters of CHARSET that generate can draw
RandomParts ==
    { Repeat("a", KEY_LENGTH), Repeat("7", KEY_LENGTH),
      "test" \o Repeat("Z", KEY_LENGTH - 4),
      "abcd1234efgh5678ijkl9012mnopqrst" }

GeneratedKeys == { Generate(test, r) : test \in BOOLEAN, r \in RandomParts }

\* The strings handed to is_valid_format and get_key_info
KeyStrings ==
    {"", "sk_", "invalid_key", "sk_abcdefg", "sk_abcdefgh", "sk_abcd-fgh",
     "sk_testabcde", "sk_test_abcdefgh", "pk_abcdefgh"}
    \cup GeneratedKeys

Timestamps == {"2024-01-01T00:00:00", "2024-01-02T00:00:00"}

UtilCalled(fn, args, out) ==
    /\ util' = LastTwo(Append(util, [fn |-> fn, args |-> args, out |-> out]))
    /\ UNCHANGED <<handle, api_key, api_url, verify_ssl, headers, session, probe, result,
                   dispatch, wire, scope, closes>>

\* APIKeyGenerator.generate(test)
GenerateCall(test, random_part) == UtilCalled("generate", <<test>>, Generate(test, random_part))

\* APIKeyGenerator.is_valid_format(key)
IsValidFormatCall(key) == UtilCalled("is_valid_format", <<key>>, IsValidFormat(key))

\* APIKeyGenerator.get_key_info(key)
GetKeyInfoCall(key, now) == UtilCalled("get_key_info", <<key>>, GetKeyInfo(key, now))

KeyNext ==
    \/ \E key \in MaskKeys, visible_chars \in VisibleChars : MaskKeyCall(key, visible_chars)
    \/ \E test \in BOOLEAN, random_part \in RandomParts : GenerateCall(test, random_part)
    \/ \E key \in {PyNone, PyInt("123")} \cup {PyStr(k) : k \in KeyStrings} : IsValidFormatCall(key)
    \/ \E key \in KeyStrings, now \in Timestamps : GetKeyInfoCall(key, now)

KeySpec == Init /\ [][KeyNext]_vars

(***************************************************************************)
(* Properties.                                                             *)
(***************************************************************************)
\* The exchange of the last call, when it made one
Sent == wire # <<>>
Reply == wire[1].reply
Answered(op) == result.op = op /\ Sent /\ IsResponse(Reply)

\* The credential has the format the constructor asks for
FormatValid(key) == key.type = "str" /\ key.s # "" /\ StartsWith(key.s, "sk_")

Probe200 == [kind |-> "response", status_code |-> 200, class |-> ""]

\* C1: the caller holds a client exactly when the credential passed the format
\* checks and the probe was answered with status 200: a constructor call returns
\* iff both hold, and every request of publish, fetch or delete comes from a client
\* whose probe was answered 200.
C1_HandleIffProbe200 ==
    /\ handle = "constructed" <=>
          (api_key # None /\ StartsWith(api_key[1], "sk_") /\ probe = Some(Probe200))
    /\ result.op = "construct" =>
          (~result.raised <=>
              (FormatValid(result.args[1]) /\ Sent /\ IsResponse(Reply)
               /\ Reply.status_code = 200))
    /\ result.op = "construct" => (handle = "constructed" <=> ~result.raised)
    /\ (result.op = "construct" /\ Sent) =>
          /\ wire[1].request.method = "GET"
          /\ wire[1].request.url = api_url[1] \o "/api/auth/verify"
    /\ (result.op \in {"publish", "get", "delete"} /\ Sent) => probe = Some(Probe200)

C1_Witness ==
    /\ handle = "constructed"
    /\ result.op = "publish"
    /\ Sent
    /\ probe = Some(Probe200)

\* C2: a constructor call with a credential that is empty, not a string or without
\* the sk_ prefix raises a Validation error, and neither a session nor a request
\* exists afterwards.
C2_BadCredentialFailsOffline ==
    (result.op = "construct" /\ ~FormatValid(result.args[1])) =>
        /\ result.raised
        /\ result.exc[1].kind = "ValidationError"
        /\ handle = "failed"
        /\ session = "none"
        /\ dispatch = None
        /\ wire = <<>>

C2_Witness ==
    /\ result.op = "construct"
    /\ result.args[1] = PyStr("pk_live")
    /\ result.raised
    /\ session = "none"

\* C3: whenever the probe is answered with a status other than 200, the
\* constructor raises an Authentication error.
C3_ProbeNon200IsAuthentication ==
    (Answered("construct") /\ Reply.status_code # 200) =>
        /\ result.raised
        /\ result.exc[1].kind = "AuthenticationError"

\* The message of the Network error raised for a timeout
TimeoutMessage == "Request timeout after " \o ToString(wire[1].request.timeout) \o "s"

\* C4: a transport exception on a dispatched request reaches the caller as a
\* Network error, in the constructor and in publish, fetch and delete alike; a
\* timeout and the other failures differ in the message only.
C4_TransportFailureIsNetwork ==
    (Sent /\ ~IsResponse(Reply)) =>
        /\ result.raised
        /\ result.exc[1].kind = "NetworkError"
        /\ IsTimeout(Reply.class) <=> result.exc[1].message = TimeoutMessage

C4_Witness ==
    /\ result.op = "publish"
    /\ Sent
    /\ ~IsResponse(Reply)
    /\ Reply.class = "RequestException"
    /\ result.exc[1].kind = "NetworkError"

\* The table of status codes and error kinds
KindOfStatus(code) ==
    CASE code \in {401, 403} -> "AuthenticationError"
      [] code = 404 -> "NotFoundError"
      [] code \in {400, 422} -> "ValidationError"
      [] code = 429 -> "RateLimitError"
      [] OTHER -> "APIError"

\* C5: a request answered with a status s >= 400 raises the error kind the table
\* gives for s, carrying s as its status code.
C5_StatusDeterminesKind ==
    (Sent /\ IsResponse(Reply) /\ Reply.status_code >= 400) =>
        /\ result.raised
        /\ result.exc[1].kind = KindOfStatus(Reply.status_code)
        /\ result.exc[1].status_code = Some(Reply.status_code)

\* C6: the generic dispatch returns, and returns the transport's response, exactly
\* when the transport answered with a status below 400; otherwise it raises and
\* hands no response to its caller.
C6_ReturnsIffBelow400 ==
    dispatch # None =>
        /\ Sent
        /\ ~dispatch[1].raised <=> (IsResponse(Reply) /\ Reply.status_code < 400)
        /\ ~dispatch[1].raised => dispatch[1].response = Some(Reply)
        /\ dispatch[1].raised => (dispatch[1].response = None /\ dispatch[1].exc # None)

C6_Witness ==
    /\ dispatch # None
    /\ dispatch[1].raised
    /\ IsResponse(Reply)
    /\ Reply.status_code = 400

\* C7: a request answered with a status >= 400 raises one of the typed API
\* errors, whatever the shape of the response body.
C7_FailuresAreTyped ==
    (Sent /\ IsResponse(Reply) /\ Reply.status_code >= 400) =>
        /\ result.raised
        /\ result.exc[1].kind \in APIErrorKinds

\* C8: a constructor call with a well-formed credential makes exactly one exchange
\* with the transport, and a call of publish, fetch or delete makes at most one,
\* whatever the transport answers.
C8_SingleAttempt ==
    /\ (result.op = "construct" /\ FormatValid(result.args[1])) => Len(wire) = 1
    /\ result.op \in {"publish", "get", "delete"} => Len(wire) <= 1

C8_Witness ==
    /\ result.op = "publish"
    /\ Len(wire) = 1
    /\ ~IsResponse(Reply)
    /\ Reply.class = "Timeout"

\* The scalar fields of the last publish call
PublishFields ==
    [title |-> result.args[1].s, content |-> result.args[2].s,
     frontmatter |-> JsonDumps(result.args[3]), file_path |-> result.args[5]]

\* C9: a publish request without images carries the fields as a JSON body and no
\* multipart parts; one with images carries one part images[<filename>] per image
\* and the fields (title, content, serialized frontmatter, file path) as form data.
C9_PublishEncoding ==
    (result.op = "publish" /\ Sent) =>
        LET req == wire[1].request
            images == result.args[4].map
        IN  /\ result.args[3] = Frontmatter =>
                  PublishFields.frontmatter = "{\"title\": \"T\", \"category\": \"web\"}"
            /\ IF DOMAIN images = {}
               THEN /\ req.json = Some(PublishFields)
                    /\ req.data = None
                    /\ req.files = None
               ELSE /\ req.json = None
                    /\ req.data = Some(PublishFields)
                    /\ req.files # None
                    /\ DOMAIN req.files[1] = {"images[" \o f \o "]" : f \in DOMAIN images}
                    /\ Cardinality(DOMAIN req.files[1]) = Cardinality(DOMAIN images)
                    /\ \A f \in DOMAIN images :
                          req.files[1]["images[" \o f \o "]"] = <<f, images[f]>>

C9_Witness ==
    /\ result.op = "publish"
    /\ Sent
    /\ Cardinality(DOMAIN result.args[4].map) = 2
    /\ Cardinality(DOMAIN wire[1].request.files[1]) = 2

\* C10: publish with an empty title, an empty content or a frontmatter that is no
\* mapping raises a Validation error and makes no exchange with the transport.
C10_PublishValidatesOffline ==
    (result.op = "publish"
     /\ (result.args[1].s = "" \/ result.args[2].s = "" \/ result.args[3].type # "dict")) =>
        /\ result.raised
        /\ result.exc[1].kind = "ValidationError"
        /\ result.exc[1].status_code = None
        /\ dispatch = None
        /\ wire = <<>>

C10_Witness ==
    /\ result.op = "publish"
    /\ result.args[1].s = "T"
    /\ result.args[2].s = "# C"
    /\ result.args[3].type = "str"
    /\ result.raised
    /\ wire = <<>>

\* The call's one request hands the transport a JSON body / multipart parts
JsonPopulated == wire[1].request.json # None
FilesPopulated == wire[1].request.files # None

\* C11 (as stated): in every call of the generic request dispatch exactly one of
\* the JSON body and the multipart parts is populated, never both and never
\* neither.
C11_ExactlyOneBody ==
    Sent => (JsonPopulated /\ ~FilesPopulated) \/ (~JsonPopulated /\ FilesPopulated)

\* C11 (amended): no call of the generic request dispatch populates both the JSON
\* body and the multipart parts; a publish call populates exactly one of them
\* (the multipart parts when it carries images, else the JSON body); the probe,
\* fetch and delete calls populate neither.
C11_BodyShapePerCall ==
    Sent =>
        /\ ~(JsonPopulated /\ FilesPopulated)
        /\ result.op = "publish" =>
              /\ FilesPopulated <=> DOMAIN result.args[4].map # {}
              /\ JsonPopulated <=> ~FilesPopulated
        /\ result.op \in {"construct", "get", "delete"} =>
              /\ ~JsonPopulated /\ ~FilesPopulated
              /\ wire[1].request.data = None

C11_Witness ==
    /\ result.op = "get" /\ Sent
    /\ ~JsonPopulated /\ ~FilesPopulated

\* The decoded body of the response the last call got
Body == Reply.json
RequiredPublishKeys == {"article_id", "published_id", "web_url", "created_at"}

\* C12: a publish answered with a status below 400 and a body holding article_id,
\* published_id, web_url and created_at returns a PublishResult whose fields equal
\* those values; its image map is empty when the body has no images key and is the
\* body's images mapping when it has one.
C12_PublishResultFromBody ==
    (Answered("publish") /\ Reply.status_code < 400 /\ Body.t = "object"
        /\ RequiredPublishKeys \subseteq DOMAIN Body.v) =>
        /\ ~result.raised
        /\ result.value # None
        /\ result.value[1].article_id = Body.v["article_id"]
        /\ result.value[1].published_id = Body.v["published_id"]
        /\ result.value[1].web_url = Body.v["web_url"]
        /\ result.value[1].created_at = Body.v["created_at"]
        /\ "images" \notin DOMAIN Body.v => result.value[1].images = EmptyMap
        /\ "images" \in DOMAIN Body.v => result.value[1].images = Body.v["images"]

C12_Witness ==
    /\ Answered("publish") /\ ~result.raised
    /\ "images" \in DOMAIN Body.v
    /\ result.value[1].images = Body.v["images"]
    /\ result.value[1].images # EmptyMap
    /\ result.value[1].article_id = "art_1"

\* The first required key, in the order publish reads them, that the body lacks
FirstMissing(keys) ==
    LET i == CHOOSE i \in 1..Len(keys) :
                 /\ keys[i] \notin DOMAIN Body.v
                 /\ \A j \in 1..(i - 1) : keys[j] \in DOMAIN Body.v
    IN  keys[i]

\* C13: a publish answered with a status below 400 whose body lacks one of
\* article_id, published_id, web_url, created_at returns no PublishResult and
\* fails with a decoding failure (a KeyError naming the first key missing) that
\* is none of the six API error kinds.
C13_MissingKeyIsDecodingFailure ==
    (Answered("publish") /\ Reply.status_code < 400 /\ Body.t = "object"
        /\ ~(RequiredPublishKeys \subseteq DOMAIN Body.v)) =>
        /\ result.raised
        /\ result.value = None
        /\ result.exc[1].kind \notin APIErrorKinds
        /\ result.exc[1].kind = "KeyError"
        /\ result.exc[1].message =
              "'" \o FirstMissing(<<"article_id", "published_id", "web_url", "created_at">>) \o "'"

C13_Witness ==
    /\ Answered("publish") /\ Reply.status_code = 200
    /\ DOMAIN Body.v = {"article_id", "published_id", "web_url"}
    /\ result.raised /\ result.exc[1].kind = "KeyError"

\* C14: a delete answered with a status below 400 and a body holding the required
\* keys returns a DeleteResult whose archived flag is true when the body has no
\* archived key, and is the body's value when it has one (false stays false).
C14_ArchivedDefaultsTrue ==
    (Answered("delete") /\ Reply.status_code < 400 /\ Body.t = "object"
        /\ {"article_id", "published_id", "deleted_at"} \subseteq DOMAIN Body.v) =>
        /\ ~result.raised
        /\ result.value # None
        /\ "archived" \notin DOMAIN Body.v => result.value[1].archived = TRUE
        /\ "archived" \in DOMAIN Body.v => result.value[1].archived = Body.v["archived"]

C14_Witness ==
    /\ Answered("delete") /\ ~result.raised
    /\ "archived" \in DOMAIN Body.v /\ Body.v["archived"] = FALSE
    /\ result.value[1].archived = FALSE

\* C15: leaving a `with client:` block invokes close exactly once, when the block
\* exits normally and when it exits by an exception raised in the block (the
\* session is released either way); entering the block invokes close not at all.
C15_ScopeClosesOnce ==
    [][ /\ (scope = "inside" /\ scope' = "outside") =>
              /\ closes' = closes + 1
              /\ session' = "closed"
        /\ (scope = "outside" /\ scope' = "inside") =>
              /\ closes' = closes
              /\ session' = session ]_vars

C15_Witness ==
    /\ result.op = "exit" /\ scope = "outside"
    /\ result.raised /\ result.exc[1].kind = "NotFoundError"
    /\ closes = 1 /\ session = "closed"

\* The fields of the client object
ClientState == <<api_key, api_url, verify_ssl, headers, session>>

\* C16: close() is idempotent: no call of close() raises, and a close() on a client
\* that was closed before (the second of two close() calls, after any calls) leaves
\* the client in the state the earlier close left it in.
C16_CloseIdempotent ==
    [][ (result'.op = "close" /\ closes' = closes + 1) =>
            /\ ~result'.raised
            /\ session' = "closed"
            /\ closes >= 1 => /\ session = "closed"
                              /\ ClientState' = ClientState
                              /\ handle' = handle ]_vars

C16_Witness ==
    /\ result.op = "close" /\ ~result.raised
    /\ closes = 2 /\ session = "closed"
    /\ handle = "constructed" /\ scope = "outside"

\* What the message of a classified error is built from: the body's error field,
\* else HTTP <code>; the raw text when the body is not JSON
ErrorPart ==
    IF Body.t = "invalid" THEN Reply.text
    ELSE IF Body.t = "object" /\ "error" \in DOMAIN Body.v THEN Body.v["error"]
    ELSE "HTTP " \o ToString(Reply.status_code)

\* The payload of a classified error: the decoded body, or the raw text under error
ErrorPayload == IF Body.t = "invalid" THEN JObj([error |-> Reply.text]) ELSE Body

RateLimitMessage == "Rate limit exceeded. Please try again later."

MessageOfStatus(code, part) ==
    CASE code = 401 -> "Unauthorized: " \o part \o ". Check your API key."
      [] code = 403 -> "Forbidden: " \o part \o ". Check your permissions."
      [] code = 404 -> "Not found: " \o part
      [] code \in {400, 422} -> "Validation error: " \o part
      [] code = 429 -> RateLimitMessage
      [] OTHER -> "API error: " \o part

\* C17: the error raised for a response with a status >= 400 has the message of
\* its status built from the body's error field if the decoded body has one, else
\* from HTTP <code>, and from the raw text when the body is not JSON; for 429 the
\* message is one fixed string whatever the body; the error's payload is the
\* decoded body, or the raw text wrapped under error when decoding failed.
C17_MessageAndPayload ==
    (Sent /\ IsResponse(Reply) /\ Reply.status_code >= 400) =>
        /\ result.raised
        /\ result.exc[1].message = MessageOfStatus(Reply.status_code, ErrorPart)
        /\ Reply.status_code = 429 => result.exc[1].message = RateLimitMessage
        /\ result.exc[1].response = Some(ErrorPayload)

\* The last n characters of a string
LastChars(str, n) == IF n >= Len(str) THEN str ELSE SubSeq(str, Len(str) - n + 1, Len(str))

\* C18: mask_key shows only the last visible_chars characters of the key: two
\* non-empty keys of equal length that agree on their last visible_chars
\* characters get the same masked string, for every visible_chars >= 0
\* (visible_chars = 0 and keys no longer than 3 + visible_chars included).
C18_MaskShowsOnlyTail ==
    \A i, j \in 1..Len(util) :
        LET a == util[i]
            b == util[j]
        IN  ( /\ a.fn = "mask_key" /\ b.fn = "mask_key"
              /\ a.args[1] # "" /\ b.args[1] # ""
              /\ a.args[2] = b.args[2]
              /\ Len(a.args[1]) = Len(b.args[1])
              /\ LastChars(a.args[1], a.args[2]) = LastChars(b.args[1], b.args[2]) )
            => a.out = b.out

\* C19: a constructor call with a well-formed credential whose probe fails (a
\* non-200 status or a transport exception) raises without a call of close: the
\* caller holds no client, and the session the constructor created stays open.
C19_FailedProbeLeavesSessionOpen ==
    /\ (result.op = "construct" /\ FormatValid(result.args[1]) /\ probe # Some(Probe200)) =>
          /\ result.raised
          /\ handle = "failed"
          /\ session = "open"
          /\ closes = 0
    /\ (handle = "failed" /\ api_key # None) => (session = "open" /\ closes = 0)

C19_Witness ==
    /\ result.op = "construct" /\ FormatValid(result.args[1])
    /\ result.raised /\ result.exc[1].kind = "NetworkError"
    /\ handle = "failed" /\ session = "open" /\ closes = 0

\* The last call was a call of the client that raised
ClientRaised == result.op \in {"construct", "publish", "get", "delete"} /\ result.raised

\* The last call got a response with a status >= 400, which _request classifies
Classified == Sent /\ IsResponse(Reply) /\ Reply.status_code >= 400

\* C20: an error raised by the client carries a status code if and only if it
\* comes from classifying a response with a status >= 400, and the code is then
\* that status; Validation errors of the local input checks (constructor,
\* publish), Network errors, and the probe's Authentication error for a non-200
\* status below 400 carry no status code and no payload.
C20_StatusCodeIffClassified ==
    ClientRaised =>
        /\ result.exc[1].status_code # None <=> Classified
        /\ Classified => result.exc[1].status_code = Some(Reply.status_code)
        /\ ~Sent =>
              /\ result.op \in {"construct", "publish"}
              /\ result.exc[1].kind = "ValidationError"
              /\ result.exc[1].status_code = None /\ result.exc[1].response = None
        /\ result.exc[1].kind = "NetworkError" =>
              /\ Sent /\ ~IsResponse(Reply)
              /\ result.exc[1].status_code = None /\ result.exc[1].response = None
        /\ (result.op = "construct" /\ Sent /\ IsResponse(Reply)
               /\ Reply.status_code < 400) =>
              /\ Reply.status_code # 200
              /\ result.exc[1].kind = "AuthenticationError"
              /\ result.exc[1].status_code = None /\ result.exc[1].response = None

\* C21: close() is not terminal: a close() step leaves the credential, the base
\* URL, the TLS flag and the headers as they were and keeps the session reference
\* (now released); a fetch or delete called on the closed client, and a publish
\* whose inputs pass the local checks, still sends one request to the transport,
\* built from those fields.
C21_CloseIsNotTerminal ==
    [][ /\ (result'.op = "close" /\ closes' = closes + 1) =>
              /\ <<api_key, api_url, verify_ssl, headers>>' =
                    <<api_key, api_url, verify_ssl, headers>>
              /\ handle' = "constructed"
              /\ session' = "closed"
        /\ (session = "closed" /\ result'.op \in {"publish", "get", "delete"}) =>
              /\ session' = "closed"
              /\ Len(wire') = 1 <=>
                    (result'.op = "publish" =>
                        ValidatePublish(result'.args[1], result'.args[2], result'.args[3]) = None)
              /\ Len(wire') <= 1
              /\ Len(wire') = 1 =>
                    /\ wire'[1].request.headers = headers[1]
                    /\ wire'[1].request.verify = verify_ssl[1]
                    /\ StartsWith(wire'[1].request.url, api_url[1]) ]_vars

C21_Witness ==
    /\ session = "closed" /\ closes = 1
    /\ result.op = "get" /\ Sent /\ ~result.raised
    /\ wire[1].request.headers = headers[1]

\* C22: leaving the `with client:` block never suppresses an error: an exception
\* raised in the block (a typed API error or any other) reaches the caller
\* unchanged after close has run, and a normal exit raises nothing.
C22_ExitNeverSuppresses ==
    [][ (scope = "inside" /\ scope' = "outside") =>
            /\ result'.op = "exit"
            /\ result'.raised <=> result'.args[1] # None
            /\ result'.exc = result'.args[1]
            /\ closes' = closes + 1
            /\ session' = "closed" ]_vars

C22_Witness ==
    /\ result.op = "exit" /\ scope = "outside"
    /\ result.raised
    /\ result.args[1] = Some(Builtin("ValueError", "raised in the block"))
    /\ result.exc = result.args[1]
    /\ session = "closed"

\* C23: a key generate(test=False) returns never starts with sk_test_ and is
\* accepted by is_valid_format; a key generate(test=True) returns starts with
\* sk_test_ and is rejected by is_valid_format, as is every string that starts
\* with sk_test_; get_key_info reports the environment test for no key, and
\* production for every key it reports valid.
C23_TestKeysAreInvalid ==
    \A i \in 1..Len(util) :
        LET c == util[i]
        IN  /\ c.fn = "generate" =>
                  /\ StartsWith(c.out, TEST_PREFIX) <=> c.args[1]
                  /\ StartsWith(c.out, PREFIX)
                  /\ Len(c.out) = KEY_LENGTH + (IF c.args[1] THEN Len(TEST_PREFIX) ELSE Len(PREFIX))
                  /\ IsValidFormat(PyStr(c.out)) <=> ~c.args[1]
            /\ (c.fn = "is_valid_format" /\ i > 1 /\ util[i - 1].fn = "generate"
                   /\ c.args[1] = PyStr(util[i - 1].out)) =>
                  (c.out <=> ~util[i - 1].args[1])
            /\ (c.fn = "is_valid_format" /\ c.args[1].type = "str"
                   /\ StartsWith(c.args[1].s, TEST_PREFIX)) => ~c.out
            /\ c.fn = "get_key_info" =>
                  /\ c.out.environment # Some("test")
                  /\ c.out.is_valid <=> c.out.environment = Some("production")
                  /\ ~c.out.is_valid <=> c.out.environment = None
                  /\ (i > 1 /\ util[i - 1].fn = "generate" /\ c.args[1] = util[i - 1].out) =>
                        (c.out.is_valid <=> ~util[i - 1].args[1])

C23_Witness ==
    /\ Len(util) = 2
    /\ util[1].fn = "generate" /\ util[1].args[1] = TRUE
    /\ util[2].fn = "is_valid_format" /\ util[2].args[1] = PyStr(util[1].out)
    /\ util[2].out = FALSE

====
